---- MODULE Spec2Model ----
(***************************************************************************)
(* Stroke recording and replay (lib/stroke.py).                            *)
(*                                                                         *)
(* A Stroke object is modelled by its instance dictionary: a function from *)
(* attribute names to values whose domain grows with every assignment and  *)
(* shrinks with every del.  Doubles are modelled by their IEEE-754         *)
(* binary64 fields and serialized to their eight little-endian bytes, so   *)
(* stroke_data is the byte string the program builds.                      *)
(***************************************************************************)
EXTENDS Integers, Sequences, FiniteSets

\* Longest tmp_event_list that record_event may build.
MaxSamples == 2
\* Number of times the recording brush may paint (brush.stroke_to outside
\* of this module's code) before the model stops it.
MaxPaint == 1

\* The Stroke objects that may exist: one made by the constructor and
\* recorded into, and one made by copy_using_different_brush.
StrokeIds == {"stroke", "clone"}
\* The surfaces render may be given.
Surfaces == {"surf1", "surf2"}

---------------------------------------------------------------------------
(* Python instance dictionaries *)

Has(d, k) == k \in DOMAIN d

\* self.k = v
Put(d, k, v) == [x \in (DOMAIN d) \cup {k} |-> IF x = k THEN v ELSE d[x]]

\* del self.k1, self.k2
Del(d, ks) == [x \in (DOMAIN d) \ ks |-> d[x]]

\* clone.__dict__.update(self.__dict__)
DictUpdate(d, e) ==
  [x \in (DOMAIN d) \cup (DOMAIN e) |-> IF x \in DOMAIN e THEN e[x] ELSE d[x]]

---------------------------------------------------------------------------
(* IEEE-754 binary64 values: sign (1 bit), exponent (11 bits), and the 52  *)
(* bit mantissa split into its high and low 26 bits.                       *)

F64(s, e, h, l) == [sign |-> s, exp |-> e, mh |-> h, ml |-> l]

D0    == F64(0, 0, 0, 0)                   \* 0.0
DHalf == F64(0, 1022, 0, 0)                \* 0.5
D1    == F64(0, 1023, 0, 0)                \* 1.0
D001  == F64(0, 1016, 18790481, 61740155)  \* 0.01
D06   == F64(0, 1022, 13421772, 53687091)  \* 0.6

\* The (dtime, x, y, pressure, xtilt, ytilt) tuples callers record.
SampleA == <<D0, D0, D0, DHalf, D0, D0>>
SampleB == <<D001, D1, D1, D06, D0, D0>>
Samples == {SampleA, SampleB}

\* The eight bytes of a float64 in memory (little-endian).
F64Bytes(d) ==
  << d.ml % 256,
     (d.ml \div 256) % 256,
     (d.ml \div 65536) % 256,
     (d.mh % 64) * 4 + (d.ml \div 16777216),
     (d.mh \div 64) % 256,
     (d.mh \div 16384) % 256,
     (d.exp % 16) * 16 + (d.mh \div 4194304),
     d.sign * 128 + (d.exp \div 16) >>

\* The float64 held by eight bytes of memory.
BytesF64(b) ==
  [sign |-> b[8] \div 128,
   exp  |-> (b[8] % 128) * 16 + (b[7] \div 16),
   mh   |-> (b[7] % 16) * 4194304 + b[6] * 16384 + b[5] * 64 + (b[4] \div 4),
   ml   |-> (b[4] % 4) * 16777216 + b[3] * 65536 + b[2] * 256 + b[1]]

\* NumpyArray laying the elements out in Fortran (column-major) order.
NumpyArray_column_major(events) ==
  [k \in 1..(6 * Len(events)) |->
     events[((k - 1) % Len(events)) + 1][((k - 1) \div Len(events)) + 1]]

\* numpy.array(list_of_6_tuples, dtype='float64'): the elements in C
\* (row-major) order; an empty list gives an empty array.
NumpyArray(events) ==
  [k \in 1..(6 * Len(events)) |-> events[((k - 1) \div 6) + 1][((k - 1) % 6) + 1]]

\* tostring of an array of 4-byte elements: the low half of each float64.
tostring_float32(arr) ==
  [k \in 1..(4 * Len(arr)) |-> F64Bytes(arr[((k - 1) \div 4) + 1])[((k - 1) % 4) + 1]]

\* ndarray.tostring(): the raw bytes of the elements, in order.
tostring(arr) ==
  [k \in 1..(8 * Len(arr)) |-> F64Bytes(arr[((k - 1) \div 8) + 1])[((k - 1) % 8) + 1]]

\* numpy.fromstring(data, dtype='float64') for len(data) a multiple of 8.
fromstring(data) ==
  [k \in 1..(Len(data) \div 8) |-> BytesF64(SubSeq(data, 8 * (k - 1) + 1, 8 * k))]

\* data.shape = (n, 6) for an array of n*6 elements.
Reshape(arr, n) ==
  [r \in 1..n |-> [c \in 1..6 |-> arr[6 * (r - 1) + c]]]

---------------------------------------------------------------------------
(* The brush engine (lib/brush.py), as far as Stroke uses it. *)

BrushInfoA == [settings |-> "settingsA", parent_brush_name |-> "parentA"]
BrushInfoB == [settings |-> "settingsB", parent_brush_name |-> "parentB"]
BrushInfos == {BrushInfoA, BrushInfoB}

\* brushinfo.save_to_string()
save_to_string(bi) == bi.settings

\* brushinfo.get_string_property("parent_brush_name")
get_string_property(bi) == bi.parent_brush_name

\* brush.new_stroke(): resets the stroke_* members of the brush.
new_stroke(b) == [b EXCEPT !.stroke_total_painting_time = 0]

\* brush.get_total_stroke_painting_time()
get_total_stroke_painting_time(b) == b.stroke_total_painting_time

\* brush.stroke_to(...) while the user paints: the engine's state vector
\* moves on and painting time accumulates.
brush_stroke_to(b) ==
  [b EXCEPT !.state = @ + 1, !.stroke_total_painting_time = @ + 1]

---------------------------------------------------------------------------
(* class Stroke *)

\* The class attribute Stroke._SERIAL_NUMBER.
SERIAL_NUMBER == 0

\* The version tag '2' (ASCII).
Version == 50

\* What a method call leaves behind: the instance dictionary, the
\* exception raised ("none" when it returns) with the line raising it, the
\* value returned, and the number of queries made of the brush's
\* painting time.
Outcome(self, err, line, ret, queries) ==
  [self |-> self, err |-> err, line |-> line, ret |-> ret, queries |-> queries]

\* Stroke.__init__: self._SERIAL_NUMBER += 1 reads the class attribute and
\* binds the sum as an instance attribute.
StrokeInit ==
  Put(Put([finished |-> FALSE], "_SERIAL_NUMBER", SERIAL_NUMBER + 1),
      "serial_number", SERIAL_NUMBER + 1)

\* start_recording without its first assertion.
start_recording_unguarded(self, b, dtype) ==
  LET s1 == Put(self, "brush_settings", save_to_string(b.brushinfo))
      s2 == Put(s1, "brush_name", get_string_property(b.brushinfo))
  IN  IF dtype # "float32"
      THEN [out |-> Outcome(s2, "AssertionError", 40, "None", 0), brush |-> b,
            trace |-> <<"save_to_string", "get_string_property", "get_state">>]
      ELSE LET s3 == Put(s2, "brush_state", b.state)
               s4 == Put(s3, "brush", "brush")
               s5 == Put(s4, "tmp_event_list", <<>>)
           IN  [out |-> Outcome(s5, "none", 0, "None", 0),
                brush |-> new_stroke(b),
                trace |-> <<"save_to_string", "get_string_property",
                            "get_state", "new_stroke">>]

\* start_recording telling the brush of the new stroke before it takes
\* the snapshot of the brush.
start_recording_reset_first(self, b, dtype) ==
  IF self.finished
  THEN [out |-> Outcome(self, "AssertionError", 33, "None", 0), brush |-> b,
        trace |-> <<>>]
  ELSE LET b1 == new_stroke(b)
           s1 == Put(self, "brush_settings", save_to_string(b1.brushinfo))
           s2 == Put(s1, "brush_name", get_string_property(b1.brushinfo))
       IN  IF dtype # "float32"
           THEN [out |-> Outcome(s2, "AssertionError", 40, "None", 0),
                 brush |-> b1,
                 trace |-> <<"new_stroke", "save_to_string",
                             "get_string_property", "get_state">>]
           ELSE LET s3 == Put(s2, "brush_state", b1.state)
                    s4 == Put(s3, "brush", "brush")
                    s5 == Put(s4, "tmp_event_list", <<>>)
                IN  [out |-> Outcome(s5, "none", 0, "None", 0),
                     brush |-> b1,
                     trace |-> <<"new_stroke", "save_to_string",
                                 "get_string_property", "get_state">>]

\* Stroke.start_recording(brush); dtype is the element type of the array
\* brush.get_state() returns.  The result also holds the brush afterwards
\* and the calls made of the brush and its brushinfo, in order.
start_recording(self, b, dtype) ==
  IF self.finished
  THEN [out |-> Outcome(self, "AssertionError", 33, "None", 0), brush |-> b,
        trace |-> <<>>]
  ELSE LET s1 == Put(self, "brush_settings", save_to_string(b.brushinfo))
           s2 == Put(s1, "brush_name", get_string_property(b.brushinfo))
       IN  IF dtype # "float32"
           THEN [out |-> Outcome(s2, "AssertionError", 40, "None", 0), brush |-> b,
                 trace |-> <<"save_to_string", "get_string_property",
                             "get_state">>]
           ELSE LET s3 == Put(s2, "brush_state", b.state)
                    s4 == Put(s3, "brush", "brush")
                    s5 == Put(s4, "tmp_event_list", <<>>)
                IN  [out |-> Outcome(s5, "none", 0, "None", 0),
                     brush |-> new_stroke(b),
                     trace |-> <<"save_to_string", "get_string_property",
                                 "get_state", "new_stroke">>]

\* record_event without its assertion: the append then meets a record
\* whose buffer stop_recording has deleted.
record_event_unguarded(self, ev) ==
  IF ~Has(self, "tmp_event_list")
  THEN Outcome(self, "AttributeError", 50, "None", 0)
  ELSE Outcome([self EXCEPT !.tmp_event_list = Append(@, ev)],
               "none", 0, "None", 0)

\* Stroke.record_event(dtime, x, y, pressure, xtilt, ytilt)
record_event(self, ev) ==
  IF self.finished
  THEN Outcome(self, "AssertionError", 49, "None", 0)
  ELSE IF ~Has(self, "tmp_event_list")
  THEN Outcome(self, "AttributeError", 50, "None", 0)
  ELSE Outcome([self EXCEPT !.tmp_event_list = Append(@, ev)],
               "none", 0, "None", 0)

\* stop_recording that, on a finished record, queries the brush again
\* instead of returning at once.
stop_recording_requery(self, b) ==
  IF self.finished
  THEN Outcome([self EXCEPT !.total_painting_time =
                               get_total_stroke_painting_time(b)],
               "none", 0, "None", 1)
  ELSE IF ~Has(self, "tmp_event_list")
  THEN Outcome(self, "AttributeError", 58, "None", 0)
  ELSE LET data == tostring(NumpyArray(self.tmp_event_list))
           s1 == Put(self, "stroke_data", <<Version>> \o data)
           s2 == Put(s1, "total_painting_time",
                     get_total_stroke_painting_time(b))
           s3 == Del(s2, {"brush", "tmp_event_list"})
       IN  Outcome([s3 EXCEPT !.finished = TRUE], "none", 0, "None", 1)

\* Stroke.stop_recording()
stop_recording(self, b) ==
  IF self.finished
  THEN Outcome(self, "none", 0, "None", 0)
  ELSE IF ~Has(self, "tmp_event_list")
  THEN Outcome(self, "AttributeError", 58, "None", 0)
  ELSE LET data == tostring(NumpyArray(self.tmp_event_list))
           s1 == Put(self, "stroke_data", <<Version>> \o data)
           s2 == Put(s1, "total_painting_time",
                     get_total_stroke_painting_time(b))
           s3 == Del(s2, {"brush", "tmp_event_list"})
       IN  Outcome([s3 EXCEPT !.finished = TRUE], "none", 0, "None", 1)

\* is_empty answering for the samples instead of the painting time.
is_empty_by_samples(self) ==
  IF ~Has(self, "total_painting_time")
  THEN Outcome(self, "AttributeError", 71, "None", 0)
  ELSE Outcome(self, "none", 0,
               IF Len(self.stroke_data) = 1 THEN "True" ELSE "False", 0)

\* Stroke.is_empty()
is_empty(self) ==
  IF ~Has(self, "total_painting_time")
  THEN Outcome(self, "AttributeError", 71, "None", 0)
  ELSE Outcome(self, "none", 0,
               IF self.total_painting_time = 0 THEN "True" ELSE "False", 0)

\* copy_using_different_brush leaving the clone with the source's brush.
copy_keeping_brush(self, brushinfo) ==
  IF ~self.finished
  THEN Outcome(self, "AssertionError", 98, StrokeInit, 0)
  ELSE Outcome(self, "none", 0, DictUpdate(StrokeInit, self), 0)

\* copy_using_different_brush writing the new brush to self, not to the
\* clone.
copy_writing_self(self, brushinfo) ==
  IF ~self.finished
  THEN Outcome(self, "AssertionError", 98, StrokeInit, 0)
  ELSE LET c1 == DictUpdate(StrokeInit, self)
           s2 == Put(self, "brush_settings", save_to_string(brushinfo))
           s3 == Put(s2, "brush_name", get_string_property(brushinfo))
       IN  Outcome(s3, "none", 0, c1, 0)

\* Stroke.copy_using_different_brush(brushinfo): ret is the clone.
copy_using_different_brush(self, brushinfo) ==
  IF ~self.finished
  THEN Outcome(self, "AssertionError", 98, StrokeInit, 0)
  ELSE LET c1 == DictUpdate(StrokeInit, self)
           c2 == Put(c1, "brush_settings", save_to_string(brushinfo))
           c3 == Put(c2, "brush_name", get_string_property(brushinfo))
       IN  Outcome(self, "none", 0, c3, 0)

\* render_decode that drops a trailing partial row instead of refusing the
\* reshape.
render_decode_truncating(self) ==
  IF ~self.finished
  THEN [err |-> "AssertionError", line |-> 76, engine |-> FALSE, rows |-> <<>>]
  ELSE IF Len(self.stroke_data) = 0
  THEN [err |-> "IndexError", line |-> 87, engine |-> TRUE, rows |-> <<>>]
  ELSE IF self.stroke_data[1] # Version
  THEN [err |-> "AssertionError", line |-> 88, engine |-> TRUE, rows |-> <<>>]
  ELSE IF Len(Tail(self.stroke_data)) % 8 # 0
  THEN [err |-> "ValueError", line |-> 89, engine |-> TRUE, rows |-> <<>>]
  ELSE LET data == fromstring(Tail(self.stroke_data))
       IN  [err |-> "none", line |-> 0, engine |-> TRUE,
            rows |-> Reshape(data, Len(data) \div 6)]

\* render_decode with a fromstring that refuses an empty string.
render_decode_rejecting_empty(self) ==
  IF ~self.finished
  THEN [err |-> "AssertionError", line |-> 76, engine |-> FALSE, rows |-> <<>>]
  ELSE IF Len(self.stroke_data) = 0
  THEN [err |-> "IndexError", line |-> 87, engine |-> TRUE, rows |-> <<>>]
  ELSE IF self.stroke_data[1] # Version
  THEN [err |-> "AssertionError", line |-> 88, engine |-> TRUE, rows |-> <<>>]
  ELSE IF Len(Tail(self.stroke_data)) % 8 # 0 \/ Len(self.stroke_data) = 1
  THEN [err |-> "ValueError", line |-> 89, engine |-> TRUE, rows |-> <<>>]
  ELSE LET data == fromstring(Tail(self.stroke_data))
           n == Len(data) \div 6
       IN  IF n * 6 # Len(data)
           THEN [err |-> "ValueError", line |-> 90, engine |-> TRUE, rows |-> <<>>]
           ELSE [err |-> "none", line |-> 0, engine |-> TRUE,
                 rows |-> Reshape(data, n)]

\* render_decode that checks self.finished only after building the engine.
render_decode_late_assert(self) ==
  IF ~self.finished
  THEN [err |-> "AssertionError", line |-> 76, engine |-> TRUE, rows |-> <<>>]
  ELSE LET data == fromstring(Tail(self.stroke_data))
       IN  [err |-> "none", line |-> 0, engine |-> TRUE,
            rows |-> Reshape(data, Len(data) \div 6)]

\* Stroke.render, lines 76-90: everything before surface.begin_atomic().
\* engine says whether the brush engine was constructed; rows is the
\* decoded array.
render_decode(self) ==
  IF ~self.finished
  THEN [err |-> "AssertionError", line |-> 76, engine |-> FALSE, rows |-> <<>>]
  ELSE IF Len(self.stroke_data) = 0
  THEN [err |-> "IndexError", line |-> 87, engine |-> TRUE, rows |-> <<>>]
  ELSE IF self.stroke_data[1] # Version
  THEN [err |-> "AssertionError", line |-> 88, engine |-> TRUE, rows |-> <<>>]
  ELSE IF Len(Tail(self.stroke_data)) % 8 # 0
  THEN [err |-> "ValueError", line |-> 89, engine |-> TRUE, rows |-> <<>>]
  ELSE LET data == fromstring(Tail(self.stroke_data))
           n == Len(data) \div 6
       IN  IF n * 6 # Len(data)
           THEN [err |-> "ValueError", line |-> 90, engine |-> TRUE, rows |-> <<>>]
           ELSE [err |-> "none", line |-> 0, engine |-> TRUE,
                 rows |-> Reshape(data, n)]

\* stroke_to_args passing the row's fields in stored order.
stroke_to_args_stored_order(surface, row) ==
  <<surface, row[1], row[2], row[3], row[4], row[5], row[6]>>

\* The arguments of b.stroke_to for one decoded row: surface.backend, then
\* x, y, pressure, xtilt, ytilt, dtime.
stroke_to_args(surface, row) ==
  <<surface, row[2], row[3], row[4], row[5], row[6], row[1]>>

\* Stroke.render(surface).  k says which b.stroke_to call raises (0: none
\* does).  The result holds the exception and its line, whether the engine
\* was constructed, the numbers of surface.begin_atomic() and
\* surface.end_atomic() calls, and the b.stroke_to calls made, in order.
render(self, surface, k) ==
  LET d == render_decode(self)
      n == Len(d.rows)
      made == IF k = 0 THEN n ELSE k
  IN  IF d.err # "none"
      THEN [err |-> d.err, line |-> d.line, engine |-> d.engine,
            begins |-> 0, ends |-> 0, calls |-> <<>>]
      ELSE [err |-> IF k = 0 THEN "none" ELSE "EngineError",
            line |-> IF k = 0 THEN 0 ELSE 94,
            engine |-> TRUE,
            begins |-> 1,
            ends |-> IF k = 0 THEN 1 ELSE 0,
            calls |-> [j \in 1..made |-> stroke_to_args(surface, d.rows[j])]]

---------------------------------------------------------------------------
(* State *)

VARIABLES
  strokes,  \* the Stroke objects that exist: id -> instance dictionary
  brush,    \* the brush engine the stroke is recorded from
  last,     \* the last Stroke method call and what it did
  replay,   \* per surface: the render call in progress on it, if any
  modes,    \* doc.modes, the ModeStack: its _stack of mode objects
  tdw,      \* the drawing widget: its grab and its override cursor
  gdk,      \* the display: who holds the pointer and the keyboard grab
  call,     \* the last ModeStack or mode call and the calls it made
  gobject   \* the main loop: the idle callbacks added and not yet removed

strokevars == <<strokes, brush, last, replay>>

guivars == <<modes, tdw, gdk, call, gobject>>

vars == <<strokes, brush, last, replay, modes, tdw, gdk, call>>

NoCall ==
  [op |-> "none", id |-> "none", err |-> "none", line |-> 0, ret |-> "None",
   queries |-> 0, surface |-> "none", engine |-> FALSE, begins |-> 0,
   ends |-> 0, calls |-> <<>>, trace |-> <<>>]

Called(op, id, out, ret) ==
  [NoCall EXCEPT !.op = op, !.id = id, !.err = out.err, !.line = out.line,
                 !.ret = ret, !.queries = out.queries]

Rendered(id, surface, r) ==
  [NoCall EXCEPT !.op = "render", !.id = id, !.surface = surface,
                 !.err = r.err, !.line = r.line, !.engine = r.engine,
                 !.begins = r.begins, !.ends = r.ends, !.calls = r.calls]

\* No render call in progress.
NoReplay ==
  [pc |-> "idle", id |-> "none", rows |-> <<>>, i |-> 0, err |-> "none",
   line |-> 0, begins |-> 0, ends |-> 0, calls |-> <<>>]

\* None, and an attribute holding the value v.
None == <<>>

Some(v) == <<v>>

\* No ModeStack or mode call made yet.
NoGuiCall ==
  [op |-> "none", err |-> "none", line |-> 0, log |-> <<>>, oids |-> <<>>,
   painted |-> <<>>, event |-> None]

\* ModeStack.__init__, and a display on which nothing is grabbed.
GuiInit ==
  /\ modes = [stack |-> <<>>]
  /\ tdw = [grab |-> FALSE, cursor |-> None, sensitive |-> TRUE]
  /\ gdk = [pointer |-> FALSE, keyboard |-> FALSE]
  /\ call = NoGuiCall
  /\ gobject = [idle |-> <<>>, detached |-> None]

Brush0 ==
  [brushinfo |-> BrushInfoA, state |-> 0, stroke_total_painting_time |-> 0]

Init ==
  /\ strokes = [x \in {} |-> StrokeInit]
  /\ brush = Brush0
  /\ last = NoCall
  /\ replay = [s \in Surfaces |-> NoReplay]
  /\ GuiInit

---------------------------------------------------------------------------
(* Operations *)

\* Stroke()
Construct ==
  /\ "stroke" \notin DOMAIN strokes
  /\ strokes' = Put(strokes, "stroke", StrokeInit)
  /\ last' = [NoCall EXCEPT !.op = "__init__", !.id = "stroke"]
  /\ UNCHANGED <<brush, replay, guivars>>

StartRecording(id, dtype) ==
  /\ id \in DOMAIN strokes
  /\ LET r == start_recording(strokes[id], brush, dtype)
     IN  /\ strokes' = [strokes EXCEPT ![id] = r.out.self]
         /\ brush' = r.brush
         /\ last' = [Called("start_recording", id, r.out, "None")
                       EXCEPT !.trace = r.trace]
  /\ UNCHANGED <<replay, guivars>>

RecordEvent(id, ev) ==
  /\ id \in DOMAIN strokes
  /\ Has(strokes[id], "tmp_event_list")
       => Len(strokes[id].tmp_event_list) < MaxSamples
  /\ LET r == record_event(strokes[id], ev)
     IN  /\ strokes' = [strokes EXCEPT ![id] = r.self]
         /\ last' = Called("record_event", id, r, "None")
  /\ UNCHANGED <<brush, replay, guivars>>

StopRecording(id) ==
  /\ id \in DOMAIN strokes
  /\ LET r == stop_recording(strokes[id], brush)
     IN  /\ strokes' = [strokes EXCEPT ![id] = r.self]
         /\ last' = Called("stop_recording", id, r, "None")
  /\ UNCHANGED <<brush, replay, guivars>>

IsEmpty(id) ==
  /\ id \in DOMAIN strokes
  /\ LET r == is_empty(strokes[id])
     IN  /\ strokes' = [strokes EXCEPT ![id] = r.self]
         /\ last' = Called("is_empty", id, r, r.ret)
  /\ UNCHANGED <<brush, replay, guivars>>

CopyUsingDifferentBrush(id, brushinfo) ==
  /\ id \in DOMAIN strokes
  /\ LET r == copy_using_different_brush(strokes[id], brushinfo)
     IN  IF r.err # "none"
         THEN /\ strokes' = [strokes EXCEPT ![id] = r.self]
              /\ last' = Called("copy_using_different_brush", id, r, "None")
         ELSE /\ "clone" \notin DOMAIN strokes
              /\ strokes' = Put([strokes EXCEPT ![id] = r.self], "clone", r.ret)
              /\ last' = Called("copy_using_different_brush", id, r, "clone")
  /\ UNCHANGED <<brush, replay, guivars>>

\* The user paints with the brush (outside of lib/stroke.py).
BrushStrokeTo ==
  /\ brush.state < MaxPaint
  /\ brush' = brush_stroke_to(brush)
  /\ UNCHANGED <<strokes, last, replay, guivars>>

\* Stroke.render(surface), with the k-th b.stroke_to call raising (k = 0:
\* none raises).
Render(id, s, k) ==
  /\ id \in DOMAIN strokes
  /\ LET d == render_decode(strokes[id])
     IN  k <= (IF d.err = "none" THEN Len(d.rows) ELSE 0)
  /\ last' = Rendered(id, s, render(strokes[id], s, k))
  /\ UNCHANGED <<strokes, brush, replay, guivars>>

Next ==
  \/ Construct
  \/ \E id \in StrokeIds, dtype \in {"float32", "float64"} : StartRecording(id, dtype)
  \/ \E id \in StrokeIds, ev \in Samples : RecordEvent(id, ev)
  \/ \E id \in StrokeIds : StopRecording(id)
  \/ \E id \in StrokeIds : IsEmpty(id)
  \/ \E id \in StrokeIds, bi \in BrushInfos : CopyUsingDifferentBrush(id, bi)
  \/ BrushStrokeTo
  \/ \E id \in StrokeIds, s \in Surfaces, k \in 0..MaxSamples : Render(id, s, k)

Spec == Init /\ [][Next]_vars

---------------------------------------------------------------------------
(* Replay of stored blobs.  stroke_data is a plain attribute that render   *)
(* reads back; this specification starts from a finished record holding    *)
(* any of a family of blobs, well-formed or not: either version byte,      *)
(* followed by any prefix of the serialization of two samples.             *)

TwoRows == tostring(NumpyArray(<<SampleB, SampleA>>))

Blobs ==
  {<<>>} \cup {<<v>> \o SubSeq(TwoRows, 1, n) : v \in {49, Version}, n \in 0..Len(TwoRows)}

\* A record as start_recording and stop_recording leave it, holding blob.
FinishedWith(blob) ==
  LET s == start_recording(StrokeInit, Brush0, "float32").out.self
  IN  [stop_recording(s, Brush0).self EXCEPT !.stroke_data = blob]

InitBlob ==
  /\ \E blob \in Blobs : strokes = Put([x \in {} |-> StrokeInit], "stroke", FinishedWith(blob))
  /\ brush = Brush0
  /\ last = NoCall
  /\ replay = [s \in Surfaces |-> NoReplay]
  /\ GuiInit

NextBlob ==
  \/ \E id \in StrokeIds, dtype \in {"float32", "float64"} : StartRecording(id, dtype)
  \/ \E id \in StrokeIds, ev \in Samples : RecordEvent(id, ev)
  \/ \E id \in StrokeIds : StopRecording(id)
  \/ \E id \in StrokeIds : IsEmpty(id)
  \/ \E id \in StrokeIds, bi \in BrushInfos : CopyUsingDifferentBrush(id, bi)
  \/ BrushStrokeTo
  \/ \E id \in StrokeIds, s \in Surfaces, k \in 0..MaxSamples : Render(id, s, k)

SpecBlob == InitBlob /\ [][NextBlob]_vars

---------------------------------------------------------------------------
(* Replays in progress.  A render call is taken one statement at a time,   *)
(* so that the calls of two replays of one finished record onto different  *)
(* surfaces interleave with each other and with copies of the record.      *)

\* render, up to surface.begin_atomic(): the blob is decoded into the local
\* array the loop then walks.
ReplayBegin(s, id) ==
  /\ replay[s].pc = "idle"
  /\ id \in DOMAIN strokes
  /\ LET d == render_decode(strokes[id])
     IN  replay' = [replay EXCEPT ![s] =
           IF d.err # "none"
           THEN [NoReplay EXCEPT !.pc = "done", !.id = id, !.err = d.err,
                                 !.line = d.line]
           ELSE [NoReplay EXCEPT !.pc = "loop", !.id = id, !.rows = d.rows,
                                 !.begins = 1]]
  /\ UNCHANGED <<strokes, brush, last, guivars>>

\* One iteration of the loop: b.stroke_to(...), which returns or raises.
ReplayStrokeTo(s, raises) ==
  /\ replay[s].pc = "loop"
  /\ replay[s].i < Len(replay[s].rows)
  /\ replay' = [replay EXCEPT ![s] =
        IF raises
        THEN [@ EXCEPT !.pc = "done", !.err = "EngineError", !.line = 94]
        ELSE [@ EXCEPT !.i = @ + 1,
                       !.calls = Append(@, stroke_to_args(s, replay[s].rows[replay[s].i + 1]))]]
  /\ UNCHANGED <<strokes, brush, last, guivars>>

\* surface.end_atomic(), after the last iteration.
ReplayEndAtomic(s) ==
  /\ replay[s].pc = "loop"
  /\ replay[s].i = Len(replay[s].rows)
  /\ replay' = [replay EXCEPT ![s] = [@ EXCEPT !.pc = "done", !.ends = 1]]
  /\ UNCHANGED <<strokes, brush, last, guivars>>

\* The render call is over; the surface is free for the next one.
ReplayReturn(s) ==
  /\ replay[s].pc = "done"
  /\ replay' = [replay EXCEPT ![s] = NoReplay]
  /\ UNCHANGED <<strokes, brush, last, guivars>>

\* A finished record made by start_recording, record_event for each sample
\* of list, and stop_recording.
Recorded(list) ==
  LET s0 == start_recording(StrokeInit, Brush0, "float32").out.self
      s1 == [s0 EXCEPT !.tmp_event_list = list]
  IN  stop_recording(s1, Brush0).self

InitReplay ==
  /\ \E n \in 0..MaxSamples : \E list \in [1..n -> Samples] :
       strokes = Put([x \in {} |-> StrokeInit], "stroke", Recorded(list))
  /\ brush = Brush0
  /\ last = NoCall
  /\ replay = [s \in Surfaces |-> NoReplay]
  /\ GuiInit

NextReplay ==
  \/ \E s \in Surfaces, id \in StrokeIds : ReplayBegin(s, id)
  \/ \E s \in Surfaces, raises \in BOOLEAN : ReplayStrokeTo(s, raises)
  \/ \E s \in Surfaces : ReplayEndAtomic(s)
  \/ \E s \in Surfaces : ReplayReturn(s)
  \/ \E id \in StrokeIds, bi \in BrushInfos : CopyUsingDifferentBrush(id, bi)

SpecReplay == InitReplay /\ [][NextReplay]_vars

---------------------------------------------------------------------------
(* Interaction modes and the mode stack (gui/canvasevent.py).              *)
(*                                                                         *)
(* A ModeStack or mode method runs to its end on a working copy st of the  *)
(* state: the mode objects by identity (heap), _stack as the identities on *)
(* it, the widget and the display, the calls made so far (log) and the     *)
(* exception raised, if any, after which every further statement is        *)
(* skipped.  Between calls only the objects on _stack are reachable, and   *)
(* they are identified by their position on it.                            *)

ModeClasses == {"SwitchableFreehandMode", "PanViewMode", "DragMode"}

default_mode_class == "SwitchableFreehandMode"

\* The classes that have DragMode among their bases.
IsDragMode(class) == class \in {"PanViewMode", "DragMode", "LayerMoveMode"}

\* The classes that have OneshotDragModeMixin among their bases.
IsOneshot(class) == class = "PanViewMode"

\* class(): InteractionMode.__init__ and DragMode._reset_drag_state.  The
\* attributes of the other classes are there too, at the values their
\* first assignment gives them.
NewMode(class) ==
  [class |-> class, doc |-> None, last_x |-> None, start_x |-> None,
   start_keyval |-> None, start_button |-> None, grab_widget |-> None,
   last_event_had_pressure_info |-> FALSE, last_painting_pos |-> None,
   motions |-> <<>>, model_x0 |-> None, final_model_dx |-> None,
   drag_update_idler_srcid |-> None, layer |-> None, move |-> None,
   oneshot |-> FALSE, drag_start_tdw |-> "unset"]

Ok(st) == st.err = "none"

\* F applied to the value of x, which is worked out once.
Then(x, F(_)) == CHOOSE r \in {F(v) : v \in {x}} : TRUE

Raise(st, err, line) == [st EXCEPT !.err = err, !.line = line]

\* The call `name` of mode o is noted, with whether o.doc is set.
Logged(st, name, o) ==
  [st EXCEPT !.log = Append(@, [call |-> name, oid |-> o,
                                doc |-> st.heap[o].doc # None])]

\* A new object of the class; ret is its identity.
Alloc(st, class) ==
  [st EXCEPT !.heap = Put(@, st.next, NewMode(class)), !.next = @ + 1,
             !.ret = Some(st.next)]

Top(st) == st.stack[Len(st.stack)]

\* InteractionMode.enter
InteractionMode_enter(st, o) == [st EXCEPT !.heap[o].doc = Some("doc")]

\* InteractionMode.leave
InteractionMode_leave(st, o) == [st EXCEPT !.heap[o].doc = None]

\* FreehandOnlyMode.reset_drawing_state
reset_drawing_state(st, o) ==
  [st EXCEPT !.heap[o].last_event_had_pressure_info = FALSE,
             !.heap[o].last_painting_pos = None,
             !.heap[o].motions = <<>>]

\* DragMode._reset_drag_state
reset_drag_state(st, o) ==
  [st EXCEPT !.heap[o].last_x = None, !.heap[o].start_x = None,
             !.heap[o].start_keyval = None, !.heap[o].start_button = None,
             !.heap[o].grab_widget = None]

\* self.doc.tdw.set_override_cursor(cursor)
set_override_cursor(st, o, cursor, line) ==
  IF st.heap[o].doc = None THEN Raise(st, "AttributeError", line)
  ELSE [st EXCEPT !.tdw.cursor = cursor]

\* mode.enter(doc): FreehandOnlyMode.enter or DragMode.enter
enter(state, o) ==
  Then(state, LAMBDA st :
    IF ~Ok(st) THEN st
    ELSE IF IsDragMode(st.heap[o].class)
    THEN Then(InteractionMode_enter(Logged(st, "enter", o), o), LAMBDA s1 :
           set_override_cursor(s1, o, Some(s1.heap[o].class), 648))
    ELSE InteractionMode_enter(
           reset_drawing_state(Logged(st, "enter", o), o), o))

\* ModeStack._notify_observers, with no observer registered
notify_observers(state) ==
  Then(state, LAMBDA st :
    IF ~Ok(st) THEN st
    ELSE IF Len(st.stack) = 0 THEN Raise(st, "IndexError", 501)
    ELSE st)

\* ModeStack._check(replacement); replacement is None or Some(mode).
check(state, replacement) ==
  Then(state, LAMBDA st :
    IF ~Ok(st) THEN st
    ELSE IF Len(st.stack) > 0 THEN [st EXCEPT !.ret = None]
    ELSE Then(IF replacement # None THEN [st EXCEPT !.ret = replacement]
              ELSE Alloc(st, default_mode_class), LAMBDA s1 :
           Then(Logged([s1 EXCEPT !.stack = Append(@, s1.ret[1])],
                       "append", s1.ret[1]), LAMBDA s2 :
             Then(enter(s2, s1.ret[1]), LAMBDA s3 :
               [s3 EXCEPT !.ret = s1.ret]))))

\* gobject.idle_add(callback), callback a method of mode o
idle_add(st, callback, o) ==
  [st EXCEPT !.idle = Append(@, [callback |-> callback, self |-> o])]

\* LayerMoveMode.drag_stop_cb
LayerMoveMode_drag_stop_cb(state, o) ==
  Then([state EXCEPT !.heap[o].drag_update_idler_srcid = None], LAMBDA st :
    IF st.heap[o].move = None THEN st
    ELSE IF st.heap[o].drag_start_tdw = "unset"
    THEN Raise(st, "AttributeError", 871)
    ELSE IF st.heap[o].drag_start_tdw = "None"
    THEN Raise(st, "AttributeError", 872)
    ELSE idle_add([st EXCEPT !.tdw.sensitive = FALSE,
                             !.tdw.cursor = Some("WATCH")],
                  "finalize_move_idler", o))

RECURSIVE ModeStack_pop(_)
RECURSIVE leave(_, _)
RECURSIVE stop_if_started(_, _)
RECURSIVE drag_stop_cb(_, _)

\* ModeStack.pop
ModeStack_pop(state) ==
  Then(state, LAMBDA st :
    IF ~Ok(st) THEN st
    ELSE Then(check(IF Len(st.stack) > 0
                    THEN leave(Logged([st EXCEPT !.stack = SubSeq(@, 1, Len(@) - 1)],
                                      "remove", Top(st)),
                               Top(st))
                    ELSE st,
                    None), LAMBDA s2 :
           IF ~Ok(s2) THEN s2
           ELSE notify_observers(
                  enter(s2, IF s2.ret = None THEN Top(s2) ELSE s2.ret[1]))))

\* mode.leave(): FreehandOnlyMode.leave or DragMode.leave
leave(state, o) ==
  Then(state, LAMBDA st :
    IF ~Ok(st) THEN st
    ELSE IF IsDragMode(st.heap[o].class)
    THEN Then(stop_if_started(Logged(st, "leave", o), o), LAMBDA s1 :
           IF ~Ok(s1) THEN s1
           ELSE Then(set_override_cursor(s1, o, None, 652), LAMBDA s2 :
                  IF ~Ok(s2) THEN s2 ELSE InteractionMode_leave(s2, o)))
    ELSE InteractionMode_leave(
           reset_drawing_state(Logged(st, "leave", o), o), o))

\* DragMode._stop_if_started
stop_if_started(state, o) ==
  Then(state, LAMBDA st :
    IF ~Ok(st) THEN st
    ELSE IF st.heap[o].grab_widget = None THEN st
    ELSE Then(drag_stop_cb([st EXCEPT !.tdw.grab = FALSE,
                                      !.gdk.keyboard = FALSE,
                                      !.gdk.pointer = FALSE,
                                      !.heap[o].grab_widget = None], o),
              LAMBDA s2 : IF ~Ok(s2) THEN s2 ELSE reset_drag_state(s2, o)))

\* DragMode.drag_stop_cb (pass) or OneshotDragModeMixin.drag_stop_cb
drag_stop_cb(state, o) ==
  Then(state, LAMBDA st :
    IF ~Ok(st) THEN st
    ELSE IF st.heap[o].class = "LayerMoveMode"
    THEN LayerMoveMode_drag_stop_cb(Logged(st, "drag_stop_cb", o), o)
    ELSE IF ~IsOneshot(st.heap[o].class) THEN Logged(st, "drag_stop_cb", o)
    ELSE IF st.heap[o].doc = None
    THEN Raise(Logged(st, "drag_stop_cb", o), "AttributeError", 726)
    ELSE ModeStack_pop(Logged(st, "drag_stop_cb", o)))

\* ModeStack.push(mode)
ModeStack_push(state, mode) ==
  Then(state, LAMBDA st :
    Then(IF Len(st.stack) > 0 THEN leave(st, Top(st)) ELSE st, LAMBDA s1 :
      IF ~Ok(s1) THEN s1
      ELSE notify_observers(
             enter(Logged([s1 EXCEPT !.stack = Append(@, mode)], "append", mode),
                   mode))))

RECURSIVE reset_loop(_)

\* The while loop of ModeStack.reset
reset_loop(state) ==
  Then(state, LAMBDA st :
    IF ~Ok(st) \/ Len(st.stack) = 0 THEN st
    ELSE Then(leave(Logged([st EXCEPT !.stack = SubSeq(@, 1, Len(@) - 1)],
                           "remove", Top(st)),
                    Top(st)), LAMBDA s1 :
           IF ~Ok(s1) THEN s1
           ELSE IF Len(s1.stack) > 0 THEN reset_loop(enter(s1, Top(s1)))
           ELSE reset_loop(s1)))

\* ModeStack.reset(replacement)
ModeStack_reset(state, replacement) ==
  Then(check(reset_loop(state), replacement), LAMBDA s1 :
    IF ~Ok(s1) THEN s1
    ELSE IF s1.ret = None THEN Raise(s1, "AssertionError", 554)
    ELSE notify_observers(s1))

\* ModeStack.top
ModeStack_top(state) ==
  Then(check(state, None), LAMBDA s1 :
    IF ~Ok(s1) THEN s1
    ELSE Then(IF s1.ret # None THEN notify_observers(enter(s1, s1.ret[1]))
              ELSE s1, LAMBDA s2 :
           IF ~Ok(s2) THEN s2 ELSE [s2 EXCEPT !.ret = Some(Top(s2))]))

\* DragMode.drag_start_cb (pass) or LayerMoveMode.drag_start_cb.  A key
\* event has no attribute x.
drag_start_cb(state, o, event) ==
  Then(Logged(state, "drag_start_cb", o), LAMBDA st :
    IF st.heap[o].class # "LayerMoveMode" THEN st
    ELSE IF st.heap[o].layer # None THEN st
    ELSE IF st.heap[o].doc = None THEN Raise(st, "AttributeError", 820)
    ELSE IF event.x = None
    THEN Raise([st EXCEPT !.heap[o].layer = Some("layer")],
               "AttributeError", 821)
    ELSE [st EXCEPT !.heap[o].layer = Some("layer"),
                    !.heap[o].model_x0 = event.x,
                    !.heap[o].drag_start_tdw = "tdw",
                    !.heap[o].move = None])

\* DragMode.drag_update_cb (pass) or LayerMoveMode.drag_update_cb
drag_update_cb(state, o, event) ==
  Then(Logged(state, "drag_update_cb", o), LAMBDA st :
    IF st.heap[o].class # "LayerMoveMode" THEN st
    ELSE IF st.heap[o].layer = None THEN st
    ELSE Then([st EXCEPT !.heap[o].move = Some("move")], LAMBDA s1 :
           IF s1.heap[o].model_x0 = None THEN Raise(s1, "TypeError", 838)
           ELSE Then([s1 EXCEPT !.heap[o].final_model_dx =
                        Some(event.x[1] - s1.heap[o].model_x0[1])], LAMBDA s2 :
                  IF s2.heap[o].drag_update_idler_srcid # None THEN s2
                  ELSE idle_add([s2 EXCEPT !.heap[o].drag_update_idler_srcid =
                                             Some("srcid")],
                                "drag_update_idler", o))))

\* LayerMoveMode.drag_update_idler; process is what self.move.process()
\* returns.  ret is what the callback returns.
drag_update_idler(state, o, process) ==
  Then(Logged(state, "drag_update_idler", o), LAMBDA st :
    IF st.heap[o].move = None
    THEN Raise(st, "AttributeError",
               IF st.heap[o].drag_update_idler_srcid = None THEN 854 ELSE 857)
    ELSE IF st.heap[o].drag_update_idler_srcid = None
    THEN [st EXCEPT !.ret = Some(FALSE)]
    ELSE IF process THEN [st EXCEPT !.ret = Some(TRUE)]
    ELSE [st EXCEPT !.heap[o].drag_update_idler_srcid = None,
                    !.ret = Some(FALSE)])

\* LayerMoveMode.finalize_move_idler
finalize_move_idler(state, o, process) ==
  Then(Logged(state, "finalize_move_idler", o), LAMBDA st :
    IF st.heap[o].move = None THEN Raise(st, "AttributeError", 881)
    ELSE IF process THEN [st EXCEPT !.ret = Some(TRUE)]
    ELSE IF st.heap[o].drag_start_tdw = "unset"
    THEN Raise(st, "AttributeError", 886)
    ELSE Then([st EXCEPT !.heap[o].drag_start_tdw = "None",
                         !.heap[o].move = None,
                         !.heap[o].final_model_dx = None], LAMBDA s1 :
           IF s1.heap[o].layer = None THEN Raise(s1, "AttributeError", 894)
           ELSE IF s1.heap[o].doc = None THEN Raise(s1, "AttributeError", 903)
           ELSE IF st.heap[o].drag_start_tdw # "tdw"
           THEN Raise([s1 EXCEPT !.heap[o].layer = None], "AttributeError", 907)
           ELSE Then([s1 EXCEPT !.heap[o].layer = None,
                                !.tdw.sensitive = TRUE,
                                !.tdw.cursor = Some("LayerMoveMode")],
                     LAMBDA s2 :
                  Then(IF s2.heap[o].oneshot THEN ModeStack_pop(s2) ELSE s2,
                       LAMBDA s3 :
                    IF ~Ok(s3) THEN s3 ELSE [s3 EXCEPT !.ret = Some(FALSE)]))))

\* An attribute that is neither None nor 0 (buttons are numbered from 1,
\* key values are not 0).
Truthy(v) == v # None

\* _start_unless_started that keeps the pointer grab when the keyboard grab
\* fails.
start_unless_started_keeping_pointer(state, o, event) ==
  Then(state, LAMBDA st :
    IF ~Ok(st) THEN st
    ELSE IF st.heap[o].grab_widget # None THEN st
    ELSE IF event.x = None /\ st.heap[o].doc = None
    THEN Raise(st, "AttributeError", 622)
    ELSE Then([st EXCEPT !.heap[o].start_x =
                 IF event.x # None THEN event.x ELSE Some(event.last_x)],
              LAMBDA s1 :
           IF ~event.pointer_grab THEN s1
           ELSE IF ~event.keyboard_grab THEN [s1 EXCEPT !.gdk.pointer = TRUE]
           ELSE drag_start_cb([s1 EXCEPT !.gdk.pointer = TRUE,
                                         !.gdk.keyboard = TRUE,
                                         !.tdw.grab = TRUE,
                                         !.heap[o].grab_widget = Some("tdw")],
                              o, event)))

\* _start_unless_started that starts a drag also when one is in progress.
start_unless_started_again(state, o, event) ==
  Then(state, LAMBDA st :
    IF ~Ok(st) THEN st
    ELSE IF event.x = None /\ st.heap[o].doc = None
    THEN Raise(st, "AttributeError", 622)
    ELSE Then([st EXCEPT !.heap[o].start_x =
                 IF event.x # None THEN event.x ELSE Some(event.last_x)],
              LAMBDA s1 :
           IF ~event.pointer_grab THEN s1
           ELSE IF ~event.keyboard_grab THEN [s1 EXCEPT !.gdk.pointer = FALSE]
           ELSE drag_start_cb([s1 EXCEPT !.gdk.pointer = TRUE,
                                         !.gdk.keyboard = TRUE,
                                         !.tdw.grab = TRUE,
                                         !.heap[o].grab_widget = Some("tdw")],
                              o, event)))

\* DragMode._start_unless_started(tdw, event).  A button or motion event
\* has the attribute x; for a key event the position is the last event's.
\* pointer_grab and keyboard_grab say whether the grab succeeds.
start_unless_started(state, o, event) ==
  Then(state, LAMBDA st :
    IF ~Ok(st) THEN st
    ELSE IF st.heap[o].grab_widget # None THEN st
    ELSE IF event.x = None /\ st.heap[o].doc = None
    THEN Raise(st, "AttributeError", 622)
    ELSE Then([st EXCEPT !.heap[o].start_x =
                 IF event.x # None THEN event.x ELSE Some(event.last_x)],
              LAMBDA s1 :
           IF ~event.pointer_grab THEN s1
           ELSE IF ~event.keyboard_grab THEN [s1 EXCEPT !.gdk.pointer = FALSE]
           ELSE drag_start_cb([s1 EXCEPT !.gdk.pointer = TRUE,
                                         !.gdk.keyboard = TRUE,
                                         !.tdw.grab = TRUE,
                                         !.heap[o].grab_widget = Some("tdw")],
                              o, event)))

\* DragMode.button_press_cb
button_press_cb(state, o, event) ==
  Then(state, LAMBDA st :
    IF Truthy(st.heap[o].start_keyval) THEN st
    ELSE Then(start_unless_started(st, o, event), LAMBDA s1 :
           IF ~Ok(s1) \/ s1.heap[o].grab_widget = None THEN s1
           ELSE [s1 EXCEPT !.heap[o].last_x = event.x,
                           !.heap[o].start_button = Some(event.button)]))

\* DragMode.button_release_cb
button_release_cb(state, o, event) ==
  Then(state, LAMBDA st :
    IF st.heap[o].grab_widget = None THEN st
    ELSE IF Some(event.button) # st.heap[o].start_button THEN st
    ELSE Then(stop_if_started(st, o), LAMBDA s1 :
           IF ~Ok(s1) THEN s1 ELSE [s1 EXCEPT !.heap[o].start_button = None]))

\* DragMode.motion_notify_cb
motion_notify_cb(state, o, event) ==
  Then(state, LAMBDA st :
    IF st.heap[o].grab_widget = None THEN st
    ELSE IF ~(Truthy(st.heap[o].start_button) \/ Truthy(st.heap[o].start_keyval))
    THEN st
    ELSE Then(start_unless_started(st, o, event), LAMBDA s1 :
           IF ~Ok(s1) THEN s1
           ELSE Then(IF s1.heap[o].last_x # None
                     THEN drag_update_cb(s1, o, event)
                     ELSE s1, LAMBDA s2 :
                  IF ~Ok(s2) THEN s2
                  ELSE [s2 EXCEPT !.heap[o].last_x = event.x])))

\* DragMode.key_press_cb
key_press_cb(state, o, event) ==
  Then(state, LAMBDA st :
    IF Truthy(st.heap[o].start_button) THEN st
    ELSE IF Some(event.keyval) = st.heap[o].start_keyval THEN st
    ELSE IF event.keyval # "space" THEN st
    ELSE start_unless_started(
           [st EXCEPT !.heap[o].start_keyval = Some(event.keyval)], o, event))

\* DragMode.key_release_cb
key_release_cb(state, o, event) ==
  Then(state, LAMBDA st :
    IF st.heap[o].grab_widget = None THEN st
    ELSE IF Some(event.keyval) # st.heap[o].start_keyval THEN st
    ELSE Then(stop_if_started(st, o), LAMBDA s1 :
           IF ~Ok(s1) THEN s1 ELSE [s1 EXCEPT !.heap[o].start_keyval = None]))

---------------------------------------------------------------------------
(* FreehandOnlyMode.motion_notify_cb.  Times are counted in 1/60 ms, so    *)
(* that the division of a time by the number of samples is exact;          *)
(* pressures in tenths.  Positions have the one coordinate x.  tdw.app is  *)
(* None (the mode used without the main application), the pressure the     *)
(* device reports is within 0.0..1.0 and it reports no tilt.               *)

\* event.time - last_event_time, given in ms
Ticks(ms) == ms * 60

\* The pressure painted with: the device's, or 0.5 / 0.0 for the button
\* down / up when it reports none; 0.0 while Control, Alt or Shift is held.
motion_pressure(event, button1_pressed) ==
  IF event.modifier THEN 0
  ELSE IF event.pressure # None THEN event.pressure[1]
  ELSE IF (IF button1_pressed # None THEN button1_pressed[1] ELSE event.button1)
  THEN 5
  ELSE 0

\* data = (x, y, pressure, xtilt, ytilt)
motion_data(event, button1_pressed) ==
  <<event.x, motion_pressure(event, button1_pressed), 0, 0>>

\* model.stroke_to(dtime, *data)
model_stroke_to(st, dtime, data) ==
  [st EXCEPT !.painted = Append(@, [dtime |-> dtime, data |-> data])]

RECURSIVE replay_motions(_, _, _)

\* for data_old in self.motions: model.stroke_to(step, *data_old)
replay_motions(st, motions, step) ==
  IF motions = <<>> THEN st
  ELSE replay_motions(model_stroke_to(st, step, Head(motions)), Tail(motions),
                      step)

\* motion_notify_cb painting the new sample before the buffered ones.
motion_notify_cb_newest_first(state, o, event, button1_pressed) ==
  Then(state, LAMBDA st :
    IF ~st.tdw.sensitive THEN st
    ELSE IF st.heap[o].doc = None THEN Raise(st, "AttributeError", 237)
    ELSE IF event.dtime = None THEN st
    ELSE IF ~event.drawable THEN st
    ELSE Then([st EXCEPT
                 !.heap[o].last_event_had_pressure_info = event.pressure # None,
                 !.heap[o].last_painting_pos =
                   IF motion_pressure(event, button1_pressed) # 0
                   THEN Some(event.x) ELSE @], LAMBDA s1 :
           LET dtime == IF event.dtime[1] < 0 THEN 0 ELSE Ticks(event.dtime[1])
               data == motion_data(event, button1_pressed)
               k == Len(s1.heap[o].motions)
               step == (IF dtime > Ticks(100) THEN Ticks(100) ELSE dtime)
                         \div (k + 1)
           IN  IF dtime = 0
               THEN [s1 EXCEPT !.heap[o].motions = Append(@, data)]
               ELSE IF k > 0
               THEN replay_motions(
                      model_stroke_to([s1 EXCEPT !.heap[o].motions = <<>>],
                                      dtime - k * step, data),
                      s1.heap[o].motions, step)
               ELSE model_stroke_to(s1, dtime, data)))

\* FreehandOnlyMode.motion_notify_cb(tdw, event, button1_pressed)
FreehandOnlyMode_motion_notify_cb(state, o, event, button1_pressed) ==
  Then(state, LAMBDA st :
    IF ~st.tdw.sensitive THEN st
    ELSE IF st.heap[o].doc = None THEN Raise(st, "AttributeError", 237)
    ELSE IF event.dtime = None THEN st
    ELSE IF ~event.drawable THEN st
    ELSE Then([st EXCEPT
                 !.heap[o].last_event_had_pressure_info = event.pressure # None,
                 !.heap[o].last_painting_pos =
                   IF motion_pressure(event, button1_pressed) # 0
                   THEN Some(event.x) ELSE @], LAMBDA s1 :
           LET dtime == IF event.dtime[1] < 0 THEN 0 ELSE Ticks(event.dtime[1])
               data == motion_data(event, button1_pressed)
               k == Len(s1.heap[o].motions)
               step == (IF dtime > Ticks(100) THEN Ticks(100) ELSE dtime)
                         \div (k + 1)
           IN  IF dtime = 0
               THEN [s1 EXCEPT !.heap[o].motions = Append(@, data)]
               ELSE IF k > 0
               THEN model_stroke_to(
                      replay_motions([s1 EXCEPT !.heap[o].motions = <<>>],
                                     s1.heap[o].motions, step),
                      dtime - k * step, data)
               ELSE model_stroke_to(s1, dtime, data)))

---------------------------------------------------------------------------
(* The calls made of the mode stack and of the mode on top of it *)

MaxDepth == 2

MaxMotions == 2

MaxIdle == 2

\* Differences of event times, in ms
Dtimes == {-8, 0, 8, 200}

\* Pressures a device reports, in tenths
Pressures == {7}

Buttons == {1, 2}

Keyvals == {"space", "a"}

Xs == {0, 1}

\* The working copy a call starts on.
\* The mode whose methods are idle callbacks is identified by its position
\* on the stack, or by Len(stack) + 1 when it is not on the stack (detached).
St0 ==
  [heap |-> IF gobject.detached = None
            THEN [j \in 1..Len(modes.stack) |-> modes.stack[j]]
            ELSE [j \in 1..Len(modes.stack) + 1 |->
                    IF j <= Len(modes.stack) THEN modes.stack[j]
                    ELSE gobject.detached[1]],
   stack |-> [j \in 1..Len(modes.stack) |-> j],
   next |-> Len(modes.stack) + (IF gobject.detached = None THEN 1 ELSE 2),
   tdw |-> tdw, gdk |-> gdk, idle |-> gobject.idle, log |-> <<>>,
   painted |-> <<>>, event |-> None, err |-> "none", line |-> 0,
   ret |-> None]

\* Where the object is on the stack, Len(stack) + 1 when it is not on it
PositionOf(stack, o) ==
  IF \E j \in 1..Len(stack) : stack[j] = o
  THEN CHOOSE j \in 1..Len(stack) : stack[j] = o
  ELSE Len(stack) + 1

\* The objects with idle callbacks that are not on the stack
Detached(st) ==
  {st.idle[i].self : i \in 1..Len(st.idle)}
    \ {st.stack[j] : j \in 1..Len(st.stack)}

\* The call is over (it returned or raised): what it leaves behind.
Commit(op, state) ==
  \E st \in {state} :
    /\ modes' = [stack |-> [j \in 1..Len(st.stack) |-> st.heap[st.stack[j]]]]
    /\ tdw' = st.tdw
    /\ gdk' = st.gdk
    /\ call' = [op |-> op, err |-> st.err, line |-> st.line, log |-> st.log,
                oids |-> st.stack, painted |-> st.painted,
                event |-> st.event]
    /\ gobject' =
         [idle |-> [i \in 1..Len(st.idle) |->
                      [st.idle[i] EXCEPT !.self = PositionOf(st.stack, @)]],
          detached |-> IF Detached(st) = {} THEN None
                       ELSE Some(st.heap[CHOOSE o \in Detached(st) : TRUE])]

\* doc.modes.push(class())
Push(class) ==
  /\ Len(modes.stack) < MaxDepth
  /\ Commit("push", Then(Alloc(St0, class), LAMBDA s0 :
                           ModeStack_push(s0, s0.ret[1])))
  /\ UNCHANGED strokevars

\* doc.modes.pop()
Pop ==
  /\ Commit("pop", ModeStack_pop(St0))
  /\ UNCHANGED strokevars

\* doc.modes.reset()
Reset ==
  /\ Commit("reset", ModeStack_reset(St0, None))
  /\ UNCHANGED strokevars

\* doc.modes.reset(replacement=class())
ResetTo(class) ==
  /\ Commit("reset", Then(Alloc(St0, class), LAMBDA s0 :
                            ModeStack_reset(s0, s0.ret)))
  /\ UNCHANGED strokevars

\* doc.modes.top
TopAccess ==
  /\ Commit("top", ModeStack_top(St0))
  /\ UNCHANGED strokevars

\* doc.modes.push(LayerMoveMode(oneshot)), while no other LayerMoveMode
\* is on the stack or has idle callbacks
PushLayerMove(oneshot) ==
  /\ Len(modes.stack) < MaxDepth
  /\ gobject.idle = <<>>
  /\ \A j \in 1..Len(modes.stack) : modes.stack[j].class # "LayerMoveMode"
  /\ Commit("push",
            Then(Alloc(St0, "LayerMoveMode"), LAMBDA s0 :
              ModeStack_push([s0 EXCEPT !.heap[s0.ret[1]].oneshot = oneshot],
                             s0.ret[1])))
  /\ UNCHANGED strokevars

\* The main loop calls the idle callback added first; it is called again
\* after the others when it returns True, and removed when it returns
\* False or raises.
IdleRun(process) ==
  /\ gobject.idle # <<>>
  /\ Commit("idle",
            Then([St0 EXCEPT !.idle = Tail(@)], LAMBDA s0 :
              Then(IF Head(St0.idle).callback = "finalize_move_idler"
                   THEN finalize_move_idler(s0, Head(St0.idle).self, process)
                   ELSE drag_update_idler(s0, Head(St0.idle).self, process),
                   LAMBDA s1 :
                IF Ok(s1) /\ s1.ret = Some(TRUE)
                THEN [s1 EXCEPT !.idle = Append(@, Head(St0.idle))]
                ELSE s1)))
  /\ UNCHANGED strokevars

\* The mode input is sent to: the top of the stack, when it is a DragMode.
\* A widget that is not sensitive gets no input.  The main loop is idle
\* before MaxIdle callbacks wait for it.
DragOnTop ==
  /\ tdw.sensitive
  /\ Len(gobject.idle) < MaxIdle
  /\ Len(modes.stack) > 0
  /\ IsDragMode(modes.stack[Len(modes.stack)].class)

ButtonEvent(button, x, pointer_grab, keyboard_grab) ==
  [button |-> button, x |-> Some(x), pointer_grab |-> pointer_grab,
   keyboard_grab |-> keyboard_grab]

KeyEvent(keyval, last_x, pointer_grab, keyboard_grab) ==
  [keyval |-> keyval, x |-> None, last_x |-> last_x,
   pointer_grab |-> pointer_grab, keyboard_grab |-> keyboard_grab]

ButtonPress(event) ==
  /\ DragOnTop
  /\ Commit("button_press_cb", button_press_cb(St0, Top(St0), event))
  /\ UNCHANGED strokevars

ButtonRelease(event) ==
  /\ DragOnTop
  /\ Commit("button_release_cb", button_release_cb(St0, Top(St0), event))
  /\ UNCHANGED strokevars

MotionNotify(event) ==
  /\ DragOnTop
  /\ Commit("motion_notify_cb", motion_notify_cb(St0, Top(St0), event))
  /\ UNCHANGED strokevars

KeyPress(event) ==
  /\ DragOnTop
  /\ Commit("key_press_cb", key_press_cb(St0, Top(St0), event))
  /\ UNCHANGED strokevars

KeyRelease(event) ==
  /\ DragOnTop
  /\ Commit("key_release_cb", key_release_cb(St0, Top(St0), event))
  /\ UNCHANGED strokevars

\* The mode input is sent to is a FreehandOnlyMode.
FreehandOnTop ==
  /\ Len(modes.stack) > 0
  /\ ~IsDragMode(modes.stack[Len(modes.stack)].class)

\* A motion event: dtime is None when there was no event before it.
MotionEvent(dtime, x, pressure, button1, modifier, drawable) ==
  [dtime |-> dtime, x |-> x, pressure |-> pressure, button1 |-> button1,
   modifier |-> modifier, drawable |-> drawable]

\* The motion events sent: the button state is read when the device
\* reports no pressure, the position when the layer can be drawn on and
\* there was an event before.
MotionEvents ==
  {event \in
     {MotionEvent(dtime, x, pressure, button1, modifier, drawable) :
        dtime \in {None} \cup {Some(d) : d \in Dtimes}, x \in Xs,
        pressure \in {None} \cup {Some(p) : p \in Pressures},
        button1 \in BOOLEAN, modifier \in BOOLEAN, drawable \in BOOLEAN} :
     /\ event.button1 => event.pressure = None /\ ~event.modifier
     /\ (event.dtime = None \/ ~event.drawable)
          => event.x = 0 /\ event.pressure = None /\ ~event.button1
               /\ ~event.modifier
     /\ event.dtime = None => event.drawable}

FreehandMotion(event) ==
  /\ FreehandOnTop
  /\ (event.dtime # None /\ event.dtime[1] <= 0)
       => Len(modes.stack[Len(modes.stack)].motions) < MaxMotions
  /\ Commit("motion_notify_cb",
            FreehandOnlyMode_motion_notify_cb(
              [St0 EXCEPT !.event = Some(event)], Top(St0), event, None))
  /\ UNCHANGED strokevars

InitModes ==
  /\ strokes = [x \in {} |-> StrokeInit]
  /\ brush = Brush0
  /\ last = NoCall
  /\ replay = [s \in Surfaces |-> NoReplay]
  /\ GuiInit

NextModes ==
  \/ \E class \in ModeClasses : Push(class)
  \/ Pop
  \/ Reset
  \/ \E class \in ModeClasses : ResetTo(class)
  \/ TopAccess
  \/ \E b \in Buttons, x \in Xs, pg, kg \in BOOLEAN :
       ButtonPress(ButtonEvent(b, x, pg, kg))
  \/ \E b \in Buttons : ButtonRelease(ButtonEvent(b, 0, TRUE, TRUE))
  \/ \E x \in Xs : MotionNotify(ButtonEvent(1, x, TRUE, TRUE))
  \/ \E k \in Keyvals, x \in Xs, pg, kg \in BOOLEAN :
       KeyPress(KeyEvent(k, x, pg, kg))
  \/ \E k \in Keyvals : KeyRelease(KeyEvent(k, 0, TRUE, TRUE))

SpecModes == InitModes /\ [][NextModes]_vars

\* Freehand drawing: the default mode, replaced by pop and reset.
NextFreehand ==
  \/ TopAccess
  \/ Pop
  \/ Reset
  \/ \E event \in MotionEvents : FreehandMotion(event)

SpecFreehand == InitModes /\ [][NextFreehand]_vars

\* Moving a layer: LayerMoveMode pushed on the default mode.
NextLayerMove ==
  \/ TopAccess
  \/ Pop
  \/ \E oneshot \in BOOLEAN : PushLayerMove(oneshot)
  \/ \E x \in Xs, pg, kg \in BOOLEAN : ButtonPress(ButtonEvent(1, x, pg, kg))
  \/ ButtonRelease(ButtonEvent(1, 0, TRUE, TRUE))
  \/ \E x \in Xs : MotionNotify(ButtonEvent(1, x, TRUE, TRUE))
  \/ \E pg, kg \in BOOLEAN : KeyPress(KeyEvent("space", 0, pg, kg))
  \/ KeyRelease(KeyEvent("space", 0, TRUE, TRUE))
  \/ \E process \in BOOLEAN : IdleRun(process)

SpecLayerMove == InitModes /\ [][NextLayerMove]_vars

---------------------------------------------------------------------------
(* Properties *)

IsPrefix(p, q) == Len(p) <= Len(q) /\ SubSeq(q, 1, Len(p)) = p

\* Every list of samples a stroke may have recorded.
SampleLists == UNION {[1..n -> Samples] : n \in 0..MaxSamples}

\* The blob stop_recording builds for a list of samples.
Serialized(list) == <<Version>> \o tostring(NumpyArray(list))

\* The samples a record holds: the buffer while recording, the rows of the
\* blob once finished.
SamplesHeld(self) ==
  IF self.finished THEN render_decode(self).rows
  ELSE IF Has(self, "tmp_event_list") THEN self.tmp_event_list
  ELSE <<>>

\* The stroke the last call was made on.
Target == strokes[last.id]

\* C1: a record_event call on a finished record (one on which
\* stop_recording has completed) raises AssertionError and leaves every
\* field of every record, stroke_data included, as it was.
C1_RecordAfterStopFails ==
  [][\A id \in StrokeIds, ev \in Samples :
       (RecordEvent(id, ev) /\ strokes[id].finished)
         => (last'.err = "AssertionError" /\ strokes' = strokes)]_vars

C1_Witness ==
  /\ last.op = "record_event"
  /\ last.err = "AssertionError"
  /\ Target.finished
  /\ Len(Target.stroke_data) > 1

\* C2: when stop_recording finalizes a recording record, decoding the
\* stroke_data it built (drop the version byte, rows of six doubles)
\* gives back exactly the recorded tuples, as many and in the same order.
C2_RoundTrip ==
  [][\A id \in StrokeIds :
       (StopRecording(id) /\ ~strokes[id].finished
          /\ Has(strokes[id], "tmp_event_list"))
         => /\ strokes'[id].finished
            /\ strokes'[id].stroke_data[1] = Version
            /\ render_decode(strokes'[id]).err = "none"
            /\ render_decode(strokes'[id]).rows = strokes[id].tmp_event_list]_vars

C2_Witness ==
  /\ last.op = "stop_recording"
  /\ last.queries = 1
  /\ Target.finished
  /\ render_decode(Target).rows = <<SampleB, SampleA>>

\* C3 (as claimed): no operation on a record that is not finished removes,
\* reorders or resets the samples it holds: the samples held before are a
\* prefix of the samples held after.
C3_AppendOnly ==
  [][\A id \in DOMAIN strokes :
       ~strokes[id].finished
         => IsPrefix(SamplesHeld(strokes[id]), SamplesHeld(strokes'[id]))]_vars

\* C4 (as claimed): whenever render exits, by returning or by raising, it
\* has called surface.end_atomic() as often as surface.begin_atomic().
C4_AtomicBalanced ==
  last.op = "render" => last.begins = last.ends

\* C5: render(surface) on a finished record whose blob serializes the n
\* samples of list calls b.stroke_to with (surface.backend, x, y, pressure,
\* xtilt, ytilt, dtime) of the samples in stored order: all n of them when
\* it returns, and the first ones, up to the call that raised, when
\* b.stroke_to raises.
C5_ReplayOrder ==
  \A list \in SampleLists :
    (last.op = "render" /\ Target.finished
       /\ Target.stroke_data = Serialized(list))
      => LET want == [j \in 1..Len(list) |->
                        <<last.surface, list[j][2], list[j][3], list[j][4],
                          list[j][5], list[j][6], list[j][1]>>]
         IN  /\ last.err \in {"none", "EngineError"}
             /\ last.err = "none" => last.calls = want
             /\ last.err = "EngineError"
                  => Len(last.calls) >= 1 /\ IsPrefix(last.calls, want)

C5_Witness ==
  /\ last.op = "render"
  /\ last.err = "none"
  /\ Target.stroke_data = Serialized(<<SampleB, SampleA>>)
  /\ Len(last.calls) = 2

\* C6: once a record's finished flag is true it stays true under every
\* operation, and start_recording on a finished record raises
\* AssertionError and changes neither a record nor the brush.
C6_OneWay ==
  [][/\ \A id \in DOMAIN strokes :
          strokes[id].finished
            => id \in DOMAIN strokes' /\ strokes'[id].finished
     /\ \A id \in StrokeIds, dtype \in {"float32", "float64"} :
          (StartRecording(id, dtype) /\ strokes[id].finished)
            => /\ last'.err = "AssertionError"
               /\ strokes' = strokes
               /\ brush' = brush]_vars

C6_Witness ==
  /\ last.op = "start_recording"
  /\ last.err = "AssertionError"
  /\ last.line = 33
  /\ Target.finished

\* C7: stop_recording on a finished record raises nothing, makes no query
\* of the brush and leaves every field of every record as it was.
C7_StopIdempotent ==
  [][\A id \in StrokeIds :
       (StopRecording(id) /\ strokes[id].finished)
         => /\ last'.err = "none"
            /\ last'.queries = 0
            /\ strokes' = strokes
            /\ brush' = brush]_vars

\* A second stop_recording, made after the brush painted on.
C7_Witness ==
  /\ last.op = "stop_recording"
  /\ last.err = "none"
  /\ last.queries = 0
  /\ Target.finished
  /\ Target.total_painting_time # get_total_stroke_painting_time(brush)

\* The blob's first byte is not the version tag, or what follows it is not
\* a whole number of 48-byte rows.
Malformed(blob) ==
  \/ Len(blob) >= 1 /\ blob[1] # Version
  \/ (Len(blob) - 1) % 48 # 0

\* C8: render of a finished record whose blob is malformed raises, having
\* made no b.stroke_to call and no surface.begin_atomic() call.
C8_FormatRejected ==
  (last.op = "render" /\ Target.finished /\ Malformed(Target.stroke_data))
    => /\ last.err \in {"AssertionError", "ValueError", "IndexError"}
       /\ last.calls = <<>>
       /\ last.begins = 0
       /\ last.ends = 0

\* A blob of a version tag and seven doubles: one row and a sixth.
C8_Witness ==
  /\ last.op = "render"
  /\ Target.finished
  /\ Len(Target.stroke_data) = 1 + 56
  /\ Target.stroke_data[1] = Version
  /\ last.err = "ValueError"

\* The last call failed by a contract violation: render of a record that is
\* not finished, or record_event on a finished one.
ContractViolation ==
  \/ last.op = "render" /\ ~Target.finished
  \/ last.op = "record_event" /\ Target.finished

\* The last call failed by a format corruption: render of a finished
\* record whose blob is malformed.
FormatCorruption ==
  last.op = "render" /\ Target.finished /\ Malformed(Target.stroke_data)

\* C9 (as claimed): a contract violation and a format corruption never
\* raise the same kind of error.
C9_ErrorsDistinguishable ==
  [][(ContractViolation /\ FormatCorruption') => last.err # last'.err]_vars

\* C10: render of a record that is not finished raises AssertionError at
\* its first line: no engine is constructed, and surface.begin_atomic(),
\* surface.end_atomic() and b.stroke_to are not called.
C10_RenderUnfinished ==
  (last.op = "render" /\ ~Target.finished)
    => /\ last.err = "AssertionError"
       /\ last.line = 76
       /\ ~last.engine
       /\ last.begins = 0
       /\ last.ends = 0
       /\ last.calls = <<>>

\* render called while the record is recording, with samples buffered.
C10_Witness ==
  /\ last.op = "render"
  /\ ~Target.finished
  /\ Has(Target, "tmp_event_list")
  /\ Len(Target.tmp_event_list) = 2

\* stop_recording(id) finalizes a recording record in this step.
Finalizes(id) ==
  StopRecording(id) /\ ~strokes[id].finished /\ Has(strokes[id], "tmp_event_list")

C12_CopyKeepsHistory ==
  [][\A id \in StrokeIds, bi \in BrushInfos :
       (CopyUsingDifferentBrush(id, bi) /\ strokes[id].finished)
         => /\ last'.err = "none"
            /\ last'.ret \notin DOMAIN strokes
            /\ last'.ret \in DOMAIN strokes'
            /\ LET c == strokes'[last'.ret]
                   s == strokes[id]
               IN  /\ c.finished
                   /\ c.stroke_data = s.stroke_data
                   /\ render_decode(c).rows = render_decode(s).rows
                   /\ c.brush_state = s.brush_state
                   /\ c.total_painting_time = s.total_painting_time
                   /\ c.brush_settings = save_to_string(bi)
                   /\ c.brush_name = get_string_property(bi)]_vars

\* A clone of a two-sample record, with another brush than the source's.
C12_Witness ==
  /\ last.op = "copy_using_different_brush"
  /\ last.err = "none"
  /\ Len(Target.stroke_data) = 1 + 48 * 2
  /\ strokes[last.ret].brush_settings # Target.brush_settings
  /\ strokes[last.ret].brush_name # Target.brush_name

\* C14 (as claimed): the record created later has the strictly greater
\* serial_number (the clone is created after the record it is copied from).
C14_SerialIncreases ==
  ("stroke" \in DOMAIN strokes /\ "clone" \in DOMAIN strokes)
    => strokes["clone"].serial_number > strokes["stroke"].serial_number

\* C15: the total_painting_time of a finished record is what the brush
\* reported when stop_recording finalized it (for a clone: its source), it
\* never changes, and is_empty() on a finished record returns True exactly
\* when it is 0, whatever samples the record holds.
C15_EmptyIffNoPaintingTime ==
  [][/\ \A id \in StrokeIds :
          Finalizes(id)
            => strokes'[id].total_painting_time
                 = get_total_stroke_painting_time(brush)
     /\ \A id \in DOMAIN strokes :
          strokes[id].finished
            => strokes'[id].total_painting_time = strokes[id].total_painting_time
     /\ \A id \in StrokeIds, bi \in BrushInfos :
          (CopyUsingDifferentBrush(id, bi) /\ strokes[id].finished)
            => strokes'[last'.ret].total_painting_time
                 = strokes[id].total_painting_time
     /\ \A id \in StrokeIds :
          (IsEmpty(id) /\ strokes[id].finished)
            => /\ last'.err = "none"
               /\ last'.ret = "True" <=> strokes[id].total_painting_time = 0]_vars

\* An empty record that holds two samples.
C15_Witness ==
  /\ last.op = "is_empty"
  /\ last.ret = "True"
  /\ Target.finished
  /\ Len(Target.stroke_data) = 1 + 48 * 2

\* C16: render of a finished record holding no sample returns, having
\* called surface.begin_atomic() once, surface.end_atomic() once and
\* b.stroke_to never.
C16_RenderNoSamples ==
  (last.op = "render" /\ Target.finished /\ Target.stroke_data = <<Version>>)
    => /\ last.err = "none"
       /\ last.begins = 1
       /\ last.ends = 1
       /\ last.calls = <<>>

C16_Witness ==
  /\ last.op = "render"
  /\ Target.finished
  /\ Target.stroke_data = <<Version>>
  /\ last.begins = 1

\* C20: a start_recording call that returns has taken the brush's settings
\* and state before calling brush.new_stroke(), which it calls once and
\* last; brush_state is the state the brush had before the call, the buffer
\* is empty and the record is not finished.  A call that raises has not
\* called brush.new_stroke().
C20_SnapshotThenNewStroke ==
  [][\A id \in StrokeIds, dtype \in {"float32", "float64"} :
       StartRecording(id, dtype)
         => IF last'.err = "none"
            THEN /\ last'.trace = <<"save_to_string", "get_string_property",
                                    "get_state", "new_stroke">>
                 /\ strokes'[id].brush_settings = save_to_string(brush.brushinfo)
                 /\ strokes'[id].brush_name = get_string_property(brush.brushinfo)
                 /\ strokes'[id].brush_state = brush.state
                 /\ brush' = new_stroke(brush)
                 /\ strokes'[id].tmp_event_list = <<>>
                 /\ ~strokes'[id].finished
            ELSE /\ \A j \in 1..Len(last'.trace) : last'.trace[j] # "new_stroke"
                 /\ brush' = brush]_vars

\* start_recording returned with a brush that had painted before.
C20_Witness ==
  /\ last.op = "start_recording"
  /\ last.err = "none"
  /\ Target.brush_state = 1
  /\ Target.tmp_event_list = <<>>
  /\ get_total_stroke_painting_time(brush) = 0

\* The fields of a record the claims name.
Fields(self) ==
  <<self.brush_settings, self.brush_name, self.brush_state, self.stroke_data,
    self.total_painting_time, self.finished, self.serial_number>>

\* C13: no step of a replay and no copy_using_different_brush call changes
\* a field of a finished record, also while two replays of it onto
\* different surfaces are in progress; and a replay that returns has passed
\* its own surface every stored sample, in order.
C13_FinishedReadOnly ==
  [][/\ \A id \in DOMAIN strokes :
          strokes[id].finished
            => /\ id \in DOMAIN strokes'
               /\ strokes'[id] = strokes[id]
               /\ Fields(strokes'[id]) = Fields(strokes[id])
     /\ \A s \in Surfaces :
          (replay'[s].pc = "done" /\ replay'[s].err = "none")
            => LET rows == render_decode(strokes'[replay'[s].id]).rows
               IN  /\ replay'[s].begins = 1
                   /\ replay'[s].ends = 1
                   /\ replay'[s].calls
                        = [j \in 1..Len(rows) |-> stroke_to_args(s, rows[j])]]_vars

\* Two replays of one two-sample record, each between its first and its
\* second sample, after the record has been copied.
C13_Witness ==
  /\ \A s \in Surfaces :
       /\ replay[s].pc = "loop"
       /\ replay[s].id = "stroke"
       /\ replay[s].i = 1
       /\ Len(replay[s].rows) = 2
  /\ "clone" \in DOMAIN strokes

\* The modes removed from _stack by the calls of a log, in order.
Removed(log) ==
  LET rm == SelectSeq(log, LAMBDA e : e.call = "remove")
  IN  [j \in 1..Len(rm) |-> rm[j].oid]

StackCalls == {"push", "pop", "reset", "top"}

\* C17 (as claimed): after every push, pop, reset and top access the stack
\* holds at least one mode; and pop on a stack of one mode leaves a stack
\* of one mode, a new object of default_mode_class.
C17_NeverEmpty ==
  [][/\ call'.op \in StackCalls => Len(modes'.stack) >= 1
     /\ (Pop /\ Len(modes.stack) = 1)
          => /\ Len(modes'.stack) = 1
             /\ modes'.stack[1].class = default_mode_class
             /\ call'.oids[1] > 1
             /\ Removed(call'.log)[1] = 1]_vars

\* C18 (as claimed): enter() is only called of a mode that is not entered
\* and leave() only of one that is (self.doc tells which), and after every
\* call of the stack the top mode is entered and no other mode is.
C18_EnterLeaveAlternate ==
  /\ \A j \in 1..Len(call.log) :
       /\ call.log[j].call = "enter" => ~call.log[j].doc
       /\ call.log[j].call = "leave" => call.log[j].doc
  /\ call.op \in StackCalls
       => \A j \in 1..Len(modes.stack) :
            (modes.stack[j].doc # None) <=> (j = Len(modes.stack))

\* C19 (as claimed): a step that stops the drag of the oneshot drag mode on
\* top of the stack removes that mode from the stack once, and, unless the
\* call is reset, removes no other mode.
C19_OneshotPopsItself ==
  [][LET n == Len(modes.stack)
         rm == Removed(call'.log)
     IN  (/\ n > 0
          /\ IsOneshot(modes.stack[n].class)
          /\ modes.stack[n].grab_widget # None
          /\ \E j \in 1..Len(call'.log) :
               call'.log[j] = [call |-> "drag_stop_cb", oid |-> n, doc |-> TRUE])
           => /\ Len(SelectSeq(rm, LAMBDA o : o = n)) = 1
              /\ call'.op # "reset" => rm = <<n>>]_vars

\* The mode at position j of the stack is in a drag (DragMode.in_drag).
InDrag(stack, j) == stack[j].grab_widget # None

\* C23 (as claimed): after every event handler, a DragMode that is not in
\* a drag has neither _start_button nor _start_keyval set; and so a button
\* press or a press of the space key whose grabs both succeed, sent to a
\* DragMode that is not in a drag, starts one.
C23_StartUnsetWhenIdle ==
  [][/\ \A j \in 1..Len(modes'.stack) :
          (IsDragMode(modes'.stack[j].class) /\ ~InDrag(modes'.stack, j))
            => /\ modes'.stack[j].start_button = None
               /\ modes'.stack[j].start_keyval = None
     /\ \A b \in Buttons, x \in Xs :
          (ButtonPress(ButtonEvent(b, x, TRUE, TRUE))
             /\ ~InDrag(modes.stack, Len(modes.stack)))
            => InDrag(modes'.stack, Len(modes'.stack))
     /\ \A x \in Xs :
          (KeyPress(KeyEvent("space", x, TRUE, TRUE))
             /\ ~InDrag(modes.stack, Len(modes.stack)))
            => InDrag(modes'.stack, Len(modes'.stack))]_vars

\* C24: after every handler and every stack call (which runs leave()), the
\* pointer grab, the keyboard grab and the widget grab are all held when a
\* mode is in a drag and none is held otherwise; only the top mode can be
\* in a drag; after a call that ran a leave() none is held; and a press
\* whose pointer or keyboard grab fails leaves none held.
C24_GrabsWhileInDrag ==
  [][LET n == Len(modes'.stack)
         dragging == \E j \in 1..n : InDrag(modes'.stack, j)
     IN  /\ gdk'.pointer = dragging
         /\ gdk'.keyboard = dragging
         /\ tdw'.grab = dragging
         /\ \A j \in 1..n : InDrag(modes'.stack, j) => j = n
         /\ (\E i \in 1..Len(call'.log) : call'.log[i].call = "leave")
              => ~dragging
         /\ \A pg, kg \in BOOLEAN, x \in Xs :
              (/\ ~(pg /\ kg)
               /\ DragOnTop
               /\ ~InDrag(modes.stack, Len(modes.stack))
               /\ \/ \E b \in Buttons : ButtonPress(ButtonEvent(b, x, pg, kg))
                  \/ \E k \in Keyvals : KeyPress(KeyEvent(k, x, pg, kg)))
                => ~dragging /\ ~gdk'.pointer /\ ~gdk'.keyboard /\ ~tdw'.grab]_vars

\* A button press whose grab failed: the start position was taken, no drag
\* was started and nothing is grabbed.
C24_Witness ==
  /\ call.op = "button_press_cb"
  /\ Len(modes.stack) > 0
  /\ modes.stack[Len(modes.stack)].start_x # None
  /\ ~InDrag(modes.stack, Len(modes.stack))
  /\ ~gdk.pointer /\ ~gdk.keyboard /\ ~tdw.grab

\* The drag callbacks of mode o among the calls of a log.
DragCalls(log, o) ==
  SelectSeq(log, LAMBDA e :
    e.oid = o /\ e.call \in {"drag_start_cb", "drag_update_cb", "drag_stop_cb"})

RECURSIVE InOrder(_, _)

\* The drag callbacks are in order, for a mode that has a drag started and
\* not stopped (open) or has not.
InOrder(calls, open) ==
  IF calls = <<>> THEN TRUE
  ELSE IF Head(calls).call = "drag_start_cb"
  THEN ~open /\ InOrder(Tail(calls), TRUE)
  ELSE IF Head(calls).call = "drag_update_cb"
  THEN open /\ InOrder(Tail(calls), TRUE)
  ELSE open /\ InOrder(Tail(calls), FALSE)

\* Whether a drag is started and not stopped after the calls.
OpenAfter(calls, open) ==
  IF calls = <<>> THEN open
  ELSE calls[Len(calls)].call # "drag_stop_cb"

\* C25: of every mode, drag_start_cb is only called with no drag started,
\* drag_update_cb and drag_stop_cb only with a drag started and not yet
\* stopped; in_drag tells between calls which of the two holds.
C25_DragCallbacksAlternate ==
  [][\A o \in 1..(Len(modes.stack) + 2) :
       LET open == o <= Len(modes.stack) /\ InDrag(modes.stack, o)
           calls == DragCalls(call'.log, o)
       IN  /\ InOrder(calls, open)
           /\ \A j \in 1..Len(modes'.stack) :
                call'.oids[j] = o
                  => InDrag(modes'.stack, j) = OpenAfter(calls, open)]_vars

\* A motion during a drag: drag_update_cb was called.
C25_Witness ==
  /\ call.op = "motion_notify_cb"
  /\ Len(call.log) = 1
  /\ call.log[1].call = "drag_update_cb"
  /\ InDrag(modes.stack, Len(modes.stack))


\* The samples the mode on top of the stack has buffered
Buffered(stack) == stack[Len(stack)].motions

(* C21: a motion event that reaches the painting part of                   *)
(* FreehandOnlyMode.motion_notify_cb with dtime <= 0 is appended to the    *)
(* buffer and makes no stroke_to call; one with dtime > 0 while k samples  *)
(* are buffered makes exactly k+1 stroke_to calls, the k buffered samples  *)
(* first in their arrival order and the current sample last, and leaves    *)
(* the buffer empty.                                                       *)
C21_BufferedThenReplayed ==
  [][\A event \in {e \in {call'.event} : e # None} :
       (/\ FreehandMotion(event[1])
        /\ tdw.sensitive /\ event[1].dtime # None /\ event[1].drawable)
       => LET k == Len(Buffered(modes.stack))
          IN  /\ call'.err = "none"
              /\ IF event[1].dtime[1] <= 0
                 THEN /\ call'.painted = <<>>
                      /\ Len(Buffered(modes'.stack)) = k + 1
                      /\ SubSeq(Buffered(modes'.stack), 1, k)
                           = Buffered(modes.stack)
                      /\ Buffered(modes'.stack)[k + 1][1] = event[1].x
                 ELSE /\ Len(call'.painted) = k + 1
                      /\ \A j \in 1..k :
                           call'.painted[j].data = Buffered(modes.stack)[j]
                      /\ call'.painted[k + 1].data[1] = event[1].x
                      /\ Buffered(modes'.stack) = <<>>]_vars

\* Two buffered samples of different positions were replayed before a third.
C21_Witness ==
  /\ call.op = "motion_notify_cb"
  /\ Len(call.painted) = 3
  /\ call.painted[1].data[1] # call.painted[2].data[1]
  /\ call.painted[3].data[1] # call.painted[2].data[1]
  /\ Buffered(modes.stack) = <<>>


\* The oneshot LayerMoveModes there are before a call, as the call's log
\* names them
OneshotLayerMoves ==
  {j \in 1..Len(modes.stack) :
     modes.stack[j].class = "LayerMoveMode" /\ modes.stack[j].oneshot}
    \cup {j \in {Len(modes.stack) + 1} :
            gobject.detached # None /\ gobject.detached[1].oneshot}

(* C22: when a drag of a LayerMoveMode created with oneshot=True has       *)
(* stopped and no idle callback is pending any more, the mode is not on    *)
(* the mode stack: this holds after every call in which its drag_stop_cb   *)
(* or its finalize_move_idler ran and which leaves no idle callback        *)
(* behind.                                                                 *)
C22_OneshotLayerMoveLeaves ==
  [][\A j \in 1..Len(call'.log) :
       (/\ call'.log[j].call \in {"drag_stop_cb", "finalize_move_idler"}
        /\ call'.log[j].oid \in OneshotLayerMoves
        /\ gobject'.idle = <<>>)
       => \A k \in 1..Len(call'.oids) : call'.oids[k] # call'.log[j].oid]_vars

====
